---- MODULE Spec2Model ----
(***************************************************************************)
(* Model of convert_old_notes.py: the identifier gate (check_uids), the    *)
(* pairwise matcher (map_bibs) with the minimum selection of __main__, the *)
(* vault scan (read_file, gen_old_entries) and the vault rewrite           *)
(* (handle_note).  Text is modelled as sequences of one-character strings, *)
(* records (Python dicts) as functions from field names to text.           *)
(***************************************************************************)
EXTENDS Integers, Sequences, FiniteSets, TLC

VARIABLES
  \* check_uids applied to one pair of records
  old_cite, new_cite, uid_ok,
  \* map_bibs and the selection of __main__
  cite_list, bib_1, bib_2, citekey_pos, comp_data, scored, bib_dists,
  min_idx, cite_map, m_pc,
  \* gen_old_entries / read_file
  lit_files, lit_pos, header_data, skipped, s_pc,
  \* the --update-vault loop over handle_note
  citekey_map, vault_files, note_pos, dry_run, verbose, fs0, fs, out,
  fs_ref, out_ref, last_note, n_pc

gvars == <<old_cite, new_cite, uid_ok>>
mvars == <<cite_list, bib_1, bib_2, citekey_pos, comp_data, scored, bib_dists,
           min_idx, cite_map, m_pc>>
svars == <<lit_files, lit_pos, header_data, skipped, s_pc>>
nvars == <<citekey_map, vault_files, note_pos, dry_run, verbose, fs0, fs, out,
           fs_ref, out_ref, last_note, n_pc>>
vars == <<gvars, mvars, svars, nvars>>

----------------------------------------------------------------------------
\* Bounds of the model.

\* distinct values an identifier field (doi, issn, year, month) takes
NumVals == 2
\* entries of the new bibliography
MaxNew == 2
\* lines of a note file of a one-file scan
MaxLines == 3
\* files of a scanned vault
MaxFiles == 2
\* tokens of the content of a rewritten note
MaxTokens == 3

----------------------------------------------------------------------------
\* Text helpers.

Chars == <<"a", "b", "c", "d">>

Min2(a, b) == IF a <= b THEN a ELSE b

Max2(a, b) == IF a >= b THEN a ELSE b

\* Python's s[a:b] for 0 <= a, with both ends clamped to the length of s
Slice(s, a, b) == SubSeq(s, Min2(a, Len(s)) + 1, Min2(b, Len(s)))

\* Python's s[a:]
SliceFrom(s, a) == SubSeq(s, Min2(a, Len(s)) + 1, Len(s))

RECURSIVE Flatten(_)
Flatten(ss) == IF ss = <<>> THEN <<>> ELSE Head(ss) \o Flatten(Tail(ss))

\* all sequences over S of length at most n
SeqsUpTo(S, n) == UNION {[1..k -> S] : k \in 0..n}

\* editdistance.eval: the Levenshtein distance of two texts
RECURSIVE editdistance(_, _)
editdistance(s, t) ==
  IF s = <<>> THEN Len(t)
  ELSE IF t = <<>> THEN Len(s)
  ELSE Min2(Min2(editdistance(Tail(s), t) + 1, editdistance(s, Tail(t)) + 1),
            editdistance(Tail(s), Tail(t)) + (IF Head(s) = Head(t) THEN 0 ELSE 1))

----------------------------------------------------------------------------
\* check_uids (the identifier gate).

\* mutant: the doi-presence rule tried before the year rule
check_uids_doi_before_year(old, new) ==
  IF "doi" \in DOMAIN old /\ "doi" \in DOMAIN new THEN old["doi"] = new["doi"]
  ELSE IF "issn" \in DOMAIN old /\ "issn" \in DOMAIN new THEN old["issn"] = new["issn"]
  ELSE IF "doi" \in DOMAIN old /\ "doi" \notin DOMAIN new THEN FALSE
  ELSE IF "year" \in DOMAIN old /\ "year" \in DOMAIN new
       THEN IF "month" \in DOMAIN old /\ "month" \in DOMAIN new
            THEN old["year"] = new["year"] /\ old["month"] = new["month"]
            ELSE old["year"] = new["year"]
  ELSE TRUE

check_uids(old, new) ==
  IF "doi" \in DOMAIN old /\ "doi" \in DOMAIN new THEN old["doi"] = new["doi"]
  ELSE IF "issn" \in DOMAIN old /\ "issn" \in DOMAIN new THEN old["issn"] = new["issn"]
  ELSE IF "year" \in DOMAIN old /\ "year" \in DOMAIN new
       THEN IF "month" \in DOMAIN old /\ "month" \in DOMAIN new
            THEN old["year"] = new["year"] /\ old["month"] = new["month"]
            ELSE old["year"] = new["year"]
  ELSE IF "doi" \in DOMAIN old /\ "doi" \notin DOMAIN new THEN FALSE
  ELSE TRUE

\* the values of an identifier field
GateVals == {<<Chars[i]>> : i \in 1..Min2(NumVals, Len(Chars))}

GateFields == {"doi", "issn", "year", "month"}

\* every record over a subset of the identifier fields
GateRecords == UNION {[S -> GateVals] : S \in SUBSET GateFields}

----------------------------------------------------------------------------
\* map_bibs and the selection of __main__.

NaN == -1

\* a row of comp_data as pandas creates it: every column NaN
NaNRow == [sim |-> NaN, n_comp |-> NaN, n_fields_old |-> NaN, n_fields_new |-> NaN]

\* the citation keys of the vault's notes, "@" stripped (cite_list)
OldKeys == <<<<"a">>, <<"b">>>>

\* the ID of the i-th entry of the new bibliography (IDs are unique in a .bib)
NewID(i) == IF i = 1 THEN <<"a">> ELSE <<"n", Chars[Min2(i, Len(Chars))]>>

EntryType == <<"t">>

Titles == {<<"a", "b">>, <<"b", "a">>}

DoiVals == {<<"x">>, <<"y">>}

YearVals == {<<"p">>}

\* the optional identifier fields of the records given to map_bibs
IdParts ==
  UNION {{g \in [S -> DoiVals \cup YearVals] :
            /\ ("doi" \in S => g["doi"] \in DoiVals)
            /\ ("year" \in S => g["year"] \in YearVals)} : S \in SUBSET {"doi", "year"}}

\* the bibtexparser entries with a given ID: ID, ENTRYTYPE and title always there
BibEntries(id) ==
  {[f \in {"ID", "ENTRYTYPE", "title"} \cup DOMAIN g |->
      IF f = "ID" THEN id
      ELSE IF f = "ENTRYTYPE" THEN EntryType
      ELSE IF f = "title" THEN t
      ELSE g[f]] : g \in IdParts, t \in Titles}

\* bib_2.entries_dict.keys(): the IDs in the order of the entries
entries_dict_keys(bib) == [i \in 1..Len(bib) |-> bib[i]["ID"]]

\* pd.MultiIndex.from_product([cite_list, keys]): old-major, new-minor order
from_product(olds, news) ==
  [k \in 1..(Len(olds) * Len(news)) |->
      <<olds[((k - 1) \div Len(news)) + 1], news[((k - 1) % Len(news)) + 1]>>]

RECURSIVE SumDist(_, _, _)
\* lines 115-119: the edit distances of the fields of old_cite that new_cite has
SumDist(old, new, keys) ==
  IF keys = {} THEN 0
  ELSE LET key == CHOOSE k \in keys : TRUE
       IN  (IF key \in DOMAIN new THEN editdistance(old[key], new[key]) ELSE 0)
             + SumDist(old, new, keys \ {key})

\* lines 115-119: the number of compared fields
n_comp_of(old, new) == Cardinality({key \in DOMAIN old : key \in DOMAIN new})

\* mutant: the gate's verdict is ignored
passes_always(old, new) == TRUE

\* lines 112-113: the pair goes on to the scorer
passes(old, new) == check_uids(old, new)

\* lines 121-124: the row written for a scored pair
row_of(old, new) ==
  [sim |-> SumDist(old, new, DOMAIN old), n_comp |-> n_comp_of(old, new),
   n_fields_old |-> Cardinality(DOMAIN old), n_fields_new |-> Cardinality(DOMAIN new)]

\* mutant: every entry is scored
scored_entries_all(old, bib) == 1..Len(bib)

\* the positions of the entries of bib_2 scored against old
scored_entries(old, bib) == {j \in 1..Len(bib) : passes(old, bib[j])}

\* lines 106-124: one pass of the outer loop, for a citekey found in bib_1
compare_all(data, citekey, old, bib) ==
  [p \in DOMAIN data |->
     IF p[1] = citekey /\ \E j \in scored_entries(old, bib) : bib[j]["ID"] = p[2]
     THEN row_of(old, bib[CHOOSE j \in scored_entries(old, bib) : bib[j]["ID"] = p[2]])
     ELSE data[p]]

\* mutant: no row is dropped
dropna_keeps_all(index, data) == index

\* comp_data.dropna(): the rows without a NaN, in the order of the index
dropna(index, data) ==
  SelectSeq(index, LAMBDA p : /\ data[p].sim # NaN /\ data[p].n_comp # NaN
                              /\ data[p].n_fields_old # NaN
                              /\ data[p].n_fields_new # NaN)

\* sim / n_comp of row p is less than that of row q (n_comp > 0: ID is shared)
avg_less(data, p, q) == data[p].sim * data[q].n_comp < data[q].sim * data[p].n_comp

\* mutant: a later row replaces the best one on a tie
better_or_tied(data, p, q) ==
  data[p].sim * data[q].n_comp <= data[q].sim * data[p].n_comp

\* idxmin's comparison: a later row replaces the best one only when smaller
better(data, p, q) == avg_less(data, p, q)

RECURSIVE idxmin(_, _, _)
\* Series.idxmin over the rows of one group: the first row holding the minimum
idxmin(data, rows, best) ==
  IF rows = <<>> THEN best
  ELSE idxmin(data, Tail(rows), IF better(data, Head(rows), best) THEN Head(rows) ELSE best)

\* mutant: one group for the whole table
group_all(rows, k) == rows

\* groupby("old"): the rows of group k, in the order of the table
group(rows, k) == SelectSeq(rows, LAMBDA p : p[1] = k)

\* avg_dists.groupby("old").idxmin(): per old key, the index of its minimum
groupby_idxmin(data, rows) ==
  [k \in {rows[i][1] : i \in 1..Len(rows)} |->
     idxmin(data, Tail(group(rows, k)), Head(group(rows, k)))]

\* {k : v for k, v in min_idx.values}
dict_of(idx) ==
  [k \in {idx[g][1] : g \in DOMAIN idx} |->
     idx[CHOOSE g \in DOMAIN idx : idx[g][1] = k][2]]

----------------------------------------------------------------------------
\* read_file and gen_old_entries (the vault scan).

Delim == <<"-", "-", "-">>

WordChars == {"a", "b", "c", "d", "_"}

\* the lines a note file of a one-file scan is made of: "---", "a: b", "a: ", "a:b"
Lines == {Delim, <<"a", ":", " ", "b">>, <<"a", ":", " ">>, <<"a", ":", "b">>}

RECURSIVE word_prefix(_)
\* the length of the longest prefix of word characters: what \w+ takes
word_prefix(line) ==
  IF line # <<>> /\ Head(line) \in WordChars THEN 1 + word_prefix(Tail(line)) ELSE 0

\* header_entry_exp.match(line) for "(\w+): (.*)": <<group 1, group 2>>, or <<>>
header_match(line) ==
  LET n == word_prefix(line)
  IN  IF n >= 1 /\ Len(line) >= n + 2 /\ line[n + 1] = ":" /\ line[n + 2] = " "
      THEN <<SubSeq(line, 1, n), SubSeq(line, n + 3, Len(line))>>
      ELSE <<>>

\* f.readline().rstrip("\n"): line i of the file, "" once the file has ended
readline(body, i) == IF i <= Len(body) THEN body[i] ELSE <<>>

\* mutant: the end of the file closes the header
at_close_or_eof(body, i) == readline(body, i) = Delim \/ i > Len(body)

\* line 39: the closing delimiter
at_close(body, i) == readline(body, i) = Delim

RECURSIVE read_loop(_, _, _)
\* lines 36-44: the header lines up to the closing delimiter
read_loop(body, i, data) ==
  IF at_close(body, i) THEN [ok |-> TRUE, data |-> data]
  ELSE LET m == header_match(readline(body, i))
       IN  IF m = <<>> THEN [ok |-> FALSE, data |-> <<>>]
           ELSE read_loop(body, i + 1,
                          [k \in DOMAIN data \cup {m[1]} |->
                             IF k = m[1] THEN m[2] ELSE data[k]])

\* read_file: ok with the header's record, or not ok (LitNoteException)
read_file(body) ==
  IF readline(body, 1) # Delim THEN [ok |-> FALSE, data |-> <<>>]
  ELSE read_loop(body, 2, <<>>)

\* lines 56-64: the body of gen_old_entries' loop for one file
scan_one(hd, f) ==
  IF f.key \in DOMAIN hd THEN [pc |-> "aborted", hd |-> hd, skip |-> FALSE]
  ELSE LET r == read_file(f.body)
       IN  IF r.ok
           THEN [pc |-> "scan", hd |-> [k \in DOMAIN hd \cup {f.key} |->
                                          IF k = f.key THEN r.data ELSE hd[k]],
                 skip |-> FALSE]
           ELSE [pc |-> "scan", hd |-> hd, skip |-> TRUE]

\* the note files glob finds: a directory of the vault and a base name "@..."
LitPaths == {<<d, k>> : d \in {"d1", "d2"}, k \in {<<"@", "a">>, <<"@", "b">>}}

\* the contents of the files of a scan of several files
ShortBodies ==
  { <<Delim, <<"a", ":", " ", "b">>, Delim>>,
    <<Delim, <<"a", ":", " ">>, Delim>>,
    <<<<"a", ":", " ", "b">>, Delim>>,
    <<Delim, <<"a", ":", "b">>, Delim>>,
    <<Delim, <<"a", ":", " ", "b">>>>,
    <<>> }

LitFile(p, body) == [dir |-> p[1], key |-> p[2], body |-> body]

\* a scan of one file, of any content of at most MaxLines lines
OneFileScans ==
  {<<LitFile(p, body)>> : p \in {<<"d1", <<"@", "a">>>>}, body \in SeqsUpTo(Lines, MaxLines)}

\* a scan of at most MaxFiles files, in any order glob may give them
ManyFileScans ==
  {fl \in SeqsUpTo({LitFile(p, body) : p \in LitPaths, body \in ShortBodies}, MaxFiles) :
     \A i, j \in 1..Len(fl) : i # j => <<fl[i].dir, fl[i].key>> # <<fl[j].dir, fl[j].key>>}

----------------------------------------------------------------------------
\* handle_note (the vault rewrite).

\* character k (from 0) of s, "" past its end
At(s, k) == IF k >= 0 /\ k < Len(s) THEN s[k + 1] ELSE ""

RECURSIVE first_close(_, _)
\* where [^\]]* stops: the first "]" at or after position j, Len(s) if none
first_close(s, j) ==
  IF j >= Len(s) THEN Len(s) ELSE IF At(s, j) = "]" THEN j ELSE first_close(s, j + 1)

\* link_expr matched at position i: <<start, end, group 1>>, or <<>>
match_at(s, i) ==
  IF At(s, i) = "[" /\ At(s, i + 1) = "["
  THEN LET j == first_close(s, i + 2)
       IN  IF At(s, j) = "]" /\ At(s, j + 1) = "]"
           THEN <<i, j + 2, Slice(s, i + 2, j)>>
           ELSE <<>>
  ELSE <<>>

RECURSIVE finditer(_, _)
\* link_expr.finditer(contents): the matches from position i on, left to right,
\* none overlapping another
finditer(s, i) ==
  IF i >= Len(s) THEN <<>>
  ELSE LET m == match_at(s, i)
       IN  IF m = <<>> THEN finditer(s, i + 1) ELSE <<m>> \o finditer(s, m[2])

\* mutant: the matches are kept front to back
add_citation_back(match, citations) == citations \o <<match>>

\* line 146: citations = [match] + citations
add_citation(match, citations) == <<match>> \o citations

RECURSIVE collect(_, _, _)
\* lines 144-146: the matches whose inner text is a key of the map, last first
collect(matches, map, citations) ==
  IF matches = <<>> THEN citations
  ELSE collect(Tail(matches), map,
               IF Head(matches)[3] \in DOMAIN map
               THEN add_citation(Head(matches), citations)
               ELSE citations)

\* line 151: one replacement
splice(new_contents, old_cite_m, new_citation) ==
  Slice(new_contents, 0, old_cite_m[1] + 2) \o new_citation
    \o SliceFrom(new_contents, old_cite_m[2] - 2)

\* lines 154-155: what is printed for one replacement
link_line(note_file, contents, new_contents, old_cite_m, new_citation) ==
  <<"link", note_file, Slice(contents, old_cite_m[1], old_cite_m[2]),
    Slice(new_contents, old_cite_m[1],
          Max2(old_cite_m[2], old_cite_m[1] + Len(new_citation) + 4))>>

RECURSIVE replace_all(_, _, _, _, _, _, _)
\* lines 147-155: the replacements, in the order of citations, and their output
replace_all(note_file, contents, new_contents, citations, map, print_output, printed) ==
  IF citations = <<>> THEN [new_contents |-> new_contents, printed |-> printed]
  ELSE LET c == Head(citations)
           nc == splice(new_contents, c, map[c[3]])
       IN  replace_all(note_file, contents, nc, Tail(citations), map, print_output,
                       IF print_output
                       THEN Append(printed, link_line(note_file, contents, nc, c, map[c[3]]))
                       ELSE printed)

\* handle_note on file system fsys (base name -> content, one directory):
\* the file system and the output it leaves, and what it read and wrote
handle_note(fsys, note_file, map, verb, dry) ==
  LET print_output == dry \/ verb
      contents == fsys[note_file]
      r == replace_all(note_file, contents, contents,
                       collect(finditer(contents, 0), map, <<>>), map, print_output, <<>>)
      new_file == IF note_file \in DOMAIN map THEN map[note_file] ELSE note_file
      printed == IF note_file \in DOMAIN map /\ print_output
                 THEN Append(r.printed, <<"mv", note_file, <<>>, new_file>>)
                 ELSE r.printed
  IN  [fs |-> IF dry THEN fsys
              ELSE [n \in (DOMAIN fsys \ {note_file}) \cup {new_file} |->
                      IF n = new_file THEN r.new_contents ELSE fsys[n]],
       printed |-> printed,
       contents |-> contents, new_contents |-> r.new_contents, new_file |-> new_file]

\* the old keys of matches.json, "@" put in front
MapKeys == {<<"@", "a">>, <<"@", "b", "b">>}

\* the new keys: shorter than, as long as and longer than the old ones
MapVals == {<<"@", "c">>, <<"@", "b", "b">>, <<"@", "c", "c", "c">>}

CitekeyMaps == UNION {[S -> MapVals] : S \in SUBSET MapKeys}

\* what the content of a note is made of: links to the old keys (links to
\* other notes when the map lacks the key), stray brackets and text
Tokens ==
  { <<"[", "[", "@", "a", "]", "]">>, <<"[", "[", "@", "b", "b", "]", "]">>,
    <<"[">>, <<"]">>, <<"x">> }

\* the contents of the notes of a vault of several files
ShortNotes ==
  { <<"[", "[", "@", "a", "]", "]">>, <<"[", "[", "@", "b", "b", "]", "]">>, <<"x">> }

NoteNames == {<<"@", "a">>, <<"@", "b", "b">>, <<"n">>}

\* a vault of one note of any content of at most MaxTokens tokens
OneNoteVaults ==
  {[files |-> <<n>>, fs |-> [k \in {n} |-> Flatten(ts)]] :
     n \in {<<"@", "a">>, <<"n">>}, ts \in SeqsUpTo(Tokens, MaxTokens)}

\* a vault of at most MaxFiles notes of one directory, in any order of the glob
ManyNoteVaults ==
  UNION {{[files |-> fl, fs |-> c] : c \in [{fl[i] : i \in 1..Len(fl)} -> ShortNotes]} :
           fl \in {s \in SeqsUpTo(NoteNames, MaxFiles) :
                     \A i, j \in 1..Len(s) : i # j => s[i] # s[j]}}

----------------------------------------------------------------------------
\* The state machines.  Each specification runs one part of the program and
\* leaves the variables of the other parts at rest.

GateIdle == old_cite = <<>> /\ new_cite = <<>> /\ uid_ok = <<>>

MatchIdle ==
  /\ cite_list = <<>> /\ bib_1 = <<>> /\ bib_2 = <<>> /\ citekey_pos = 1
  /\ comp_data = <<>> /\ scored = {} /\ bib_dists = <<>> /\ min_idx = <<>>
  /\ cite_map = <<>> /\ m_pc = "idle"

ScanIdle ==
  lit_files = <<>> /\ lit_pos = 1 /\ header_data = <<>> /\ skipped = {} /\ s_pc = "idle"

NoteIdle ==
  /\ citekey_map = <<>> /\ vault_files = <<>> /\ note_pos = 1 /\ dry_run = FALSE
  /\ verbose = FALSE /\ fs0 = <<>> /\ fs = <<>> /\ out = <<>> /\ fs_ref = <<>>
  /\ out_ref = <<>> /\ last_note = <<>> /\ n_pc = "idle"

\* ---- check_uids on one pair of records

GateInit ==
  /\ old_cite \in GateRecords /\ new_cite \in GateRecords /\ uid_ok = <<>>
  /\ MatchIdle /\ ScanIdle /\ NoteIdle

CheckUids ==
  /\ uid_ok = <<>>
  /\ uid_ok' = <<check_uids(old_cite, new_cite)>>
  /\ UNCHANGED <<old_cite, new_cite, mvars, svars, nvars>>

SpecGate == GateInit /\ [][CheckUids]_vars

\* ---- map_bibs, then the minimum selection of __main__

\* the index of comp_data
index == from_product(cite_list, entries_dict_keys(bib_2))

\* bib_2.entries: at most MaxNew entries, the i-th with ID NewID(i)
NewBibs ==
  UNION {{b \in [1..n -> UNION {BibEntries(NewID(i)) : i \in 1..n}] :
            \A i \in 1..n : b[i]["ID"] = NewID(i)} : n \in 0..MaxNew}

\* the entries the first old key may have: its title and its doi are fixed,
\* which loses no case, titles and dois being compared only with one another
FirstOldEntries ==
  {e \in BibEntries(OldKeys[1]) :
     /\ e["title"] = <<"a", "b">>
     /\ ("doi" \in DOMAIN e => e["doi"] = <<"x">>)}

\* bib_1.entries_dict: the first old key is in it, the second may be missing
OldBibs ==
  {[k \in {OldKeys[1]} |-> e] : e \in FirstOldEntries}
    \cup {[k \in {OldKeys[1], OldKeys[2]} |-> IF k = OldKeys[1] THEN e1 ELSE e2] :
            e1 \in FirstOldEntries, e2 \in BibEntries(OldKeys[2])}

MatchInit ==
  /\ cite_list = OldKeys
  /\ bib_1 \in OldBibs
  /\ bib_2 \in NewBibs
  /\ citekey_pos = 1
  /\ comp_data = [p \in {index[i] : i \in DOMAIN index} |-> NaNRow]
  /\ scored = {} /\ bib_dists = <<>> /\ min_idx = <<>> /\ cite_map = <<>>
  /\ m_pc = "loop"
  /\ GateIdle /\ ScanIdle /\ NoteIdle

\* lines 102-105: the citekey is not in the old bibliography
MapBibsMissing ==
  /\ m_pc = "loop" /\ citekey_pos <= Len(cite_list)
  /\ cite_list[citekey_pos] \notin DOMAIN bib_1
  /\ citekey_pos' = citekey_pos + 1
  /\ UNCHANGED <<cite_list, bib_1, bib_2, comp_data, scored, bib_dists, min_idx,
                 cite_map, m_pc, gvars, svars, nvars>>

\* lines 106-124: the citekey is compared with every entry of the new one
MapBibsCompare ==
  /\ m_pc = "loop" /\ citekey_pos <= Len(cite_list)
  /\ cite_list[citekey_pos] \in DOMAIN bib_1
  /\ LET citekey == cite_list[citekey_pos]
         old == bib_1[citekey]
     IN  /\ comp_data' = compare_all(comp_data, citekey, old, bib_2)
         /\ scored' = scored \cup {<<citekey, bib_2[j]["ID"]>> : j \in scored_entries(old, bib_2)}
  /\ citekey_pos' = citekey_pos + 1
  /\ UNCHANGED <<cite_list, bib_1, bib_2, bib_dists, min_idx, cite_map, m_pc,
                 gvars, svars, nvars>>

\* line 129: return comp_data.dropna()
MapBibsReturn ==
  /\ m_pc = "loop" /\ citekey_pos > Len(cite_list)
  /\ bib_dists' = dropna(index, comp_data)
  /\ m_pc' = "select"
  /\ UNCHANGED <<cite_list, bib_1, bib_2, citekey_pos, comp_data, scored, min_idx,
                 cite_map, gvars, svars, nvars>>

\* lines 195-198: the minimum per old key, and the map written to matches.json
SelectMin ==
  /\ m_pc = "select"
  /\ min_idx' = groupby_idxmin(comp_data, bib_dists)
  /\ cite_map' = dict_of(min_idx')
  /\ m_pc' = "done"
  /\ UNCHANGED <<cite_list, bib_1, bib_2, citekey_pos, comp_data, scored, bib_dists,
                 gvars, svars, nvars>>

MatchNext == MapBibsMissing \/ MapBibsCompare \/ MapBibsReturn \/ SelectMin

SpecMatch == MatchInit /\ [][MatchNext]_vars

\* ---- gen_old_entries

ScanInit ==
  /\ lit_files \in OneFileScans \cup ManyFileScans
  /\ lit_pos = 1 /\ header_data = <<>> /\ skipped = {} /\ s_pc = "scan"
  /\ GateIdle /\ MatchIdle /\ NoteIdle

\* lines 56-64 applied to the file at lit_pos
ScanApply ==
  LET r == scan_one(header_data, lit_files[lit_pos])
  IN  /\ s_pc' = r.pc
      /\ header_data' = r.hd
      /\ skipped' = IF r.skip THEN skipped \cup {lit_pos} ELSE skipped
      /\ lit_pos' = IF r.pc = "scan" THEN lit_pos + 1 ELSE lit_pos
      /\ UNCHANGED <<lit_files, gvars, mvars, nvars>>

\* lines 58-59: the citekey was read before
ScanDuplicate ==
  /\ s_pc = "scan" /\ lit_pos <= Len(lit_files)
  /\ lit_files[lit_pos].key \in DOMAIN header_data
  /\ ScanApply

\* line 61: the header is read
ScanRead ==
  /\ s_pc = "scan" /\ lit_pos <= Len(lit_files)
  /\ lit_files[lit_pos].key \notin DOMAIN header_data
  /\ read_file(lit_files[lit_pos].body).ok
  /\ ScanApply

\* lines 62-64: read_file raised LitNoteException
ScanSkip ==
  /\ s_pc = "scan" /\ lit_pos <= Len(lit_files)
  /\ lit_files[lit_pos].key \notin DOMAIN header_data
  /\ ~read_file(lit_files[lit_pos].body).ok
  /\ ScanApply

\* line 65: return header_data
ScanReturn ==
  /\ s_pc = "scan" /\ lit_pos > Len(lit_files)
  /\ s_pc' = "done"
  /\ UNCHANGED <<lit_files, lit_pos, header_data, skipped, gvars, mvars, nvars>>

ScanNext == ScanDuplicate \/ ScanRead \/ ScanSkip \/ ScanReturn

SpecScan == ScanInit /\ [][ScanNext]_vars

\* ---- the --update-vault loop: handle_note on every file of the glob.
\* fs_ref and out_ref are the same loop run on the same vault without
\* dry_run and with verbose, the run a dry run is compared with.

NoteInit ==
  /\ \E v \in OneNoteVaults \cup ManyNoteVaults :
       vault_files = v.files /\ fs0 = v.fs /\ fs = v.fs /\ fs_ref = v.fs
  /\ citekey_map \in CitekeyMaps
  /\ dry_run \in BOOLEAN /\ verbose \in BOOLEAN
  /\ note_pos = 1 /\ out = <<>> /\ out_ref = <<>> /\ last_note = <<>> /\ n_pc = "run"
  /\ GateIdle /\ MatchIdle /\ ScanIdle

\* lines 210-211: handle_note(note_file, citekey_map, args.verbose, args.dry_run)
HandleNote ==
  /\ n_pc = "run" /\ note_pos <= Len(vault_files)
  /\ LET note_file == vault_files[note_pos]
         r == handle_note(fs, note_file, citekey_map, verbose, dry_run)
         ref == handle_note(fs_ref, note_file, citekey_map, TRUE, FALSE)
     IN  /\ fs' = r.fs
         /\ out' = out \o r.printed
         /\ last_note' = <<[file |-> note_file, contents |-> r.contents,
                            new_file |-> r.new_file]>>
         /\ fs_ref' = ref.fs
         /\ out_ref' = out_ref \o ref.printed
  /\ note_pos' = note_pos + 1
  /\ UNCHANGED <<citekey_map, vault_files, dry_run, verbose, fs0, n_pc,
                 gvars, mvars, svars>>

NotesDone ==
  /\ n_pc = "run" /\ note_pos > Len(vault_files)
  /\ n_pc' = "done"
  /\ UNCHANGED <<citekey_map, vault_files, note_pos, dry_run, verbose, fs0, fs, out,
                 fs_ref, out_ref, last_note, gvars, mvars, svars>>

NoteNext == HandleNote \/ NotesDone

SpecNote == NoteInit /\ [][NoteNext]_vars

----------------------------------------------------------------------------
\* The identifier gate as the cascade of rules of its contract.

Has(r, f) == f \in DOMAIN r

Same(old, new, f) == Has(old, f) /\ Has(new, f) /\ old[f] = new[f]

RuleApplies(k, old, new) ==
  CASE k = 1 -> Has(old, "doi") /\ Has(new, "doi")
    [] k = 2 -> Has(old, "issn") /\ Has(new, "issn")
    [] k = 3 -> Has(old, "year") /\ Has(new, "year")
    [] k = 4 -> Has(old, "doi") /\ ~Has(new, "doi")
    [] OTHER -> TRUE

RuleVerdict(k, old, new) ==
  CASE k = 1 -> Same(old, new, "doi")
    [] k = 2 -> Same(old, new, "issn")
    [] k = 3 -> IF Has(old, "month") /\ Has(new, "month")
                THEN Same(old, new, "year") /\ Same(old, new, "month")
                ELSE Same(old, new, "year")
    [] k = 4 -> FALSE
    [] OTHER -> TRUE

FirstRule(old, new) ==
  CHOOSE k \in 1..5 : RuleApplies(k, old, new) /\ \A j \in 1..(k - 1) : ~RuleApplies(j, old, new)

GateVerdict(old, new) == RuleVerdict(FirstRule(old, new), old, new)

\* C1: check_uids returns the verdict of the first applicable rule of the
\* cascade doi, issn, year (with month), doi on the old side only, default
\* true; so an identical doi passes whatever the years, and a different doi
\* fails whatever else agrees.
C1_FirstRuleDecides ==
  uid_ok # <<>> =>
    /\ uid_ok[1] = GateVerdict(old_cite, new_cite)
    /\ (Same(old_cite, new_cite, "doi") => uid_ok[1])
    /\ (Has(old_cite, "doi") /\ Has(new_cite, "doi") /\ old_cite["doi"] # new_cite["doi"]
          => ~uid_ok[1])

\* an identical doi has passed although the years differ
C1_Witness ==
  /\ uid_ok = <<TRUE>>
  /\ Same(old_cite, new_cite, "doi")
  /\ Has(old_cite, "year") /\ Has(new_cite, "year") /\ old_cite["year"] # new_cite["year"]

----------------------------------------------------------------------------
\* The matcher.

\* the entry of the new bibliography with ID n
NewEntry(n) == bib_2[CHOOSE j \in 1..Len(bib_2) : bib_2[j]["ID"] = n]

NewIDs == {bib_2[j]["ID"] : j \in 1..Len(bib_2)}

\* the old keys map_bibs compares: those of cite_list found in bib_1
Compared == {cite_list[i] : i \in 1..Len(cite_list)} \cap DOMAIN bib_1

\* (k, n) is a pair of an old and a new record that passes the gate
GatePair(k, n) == k \in Compared /\ n \in NewIDs /\ check_uids(bib_1[k], NewEntry(n))

\* the new records that pass the gate against old key k
Survivors(k) == {n \in NewIDs : GatePair(k, n)}

\* C2: every scored pair, every row of the table map_bibs returns and every
\* entry of cite_map is a pair that passed check_uids; a pair failing the gate
\* is never scored and never in the output.
C2_GateIsHardFilter ==
  /\ \A p \in scored : GatePair(p[1], p[2])
  /\ \A p \in DOMAIN comp_data : comp_data[p] # NaNRow => GatePair(p[1], p[2])
  /\ \A i \in 1..Len(bib_dists) : GatePair(bib_dists[i][1], bib_dists[i][2])
  /\ \A k \in DOMAIN cite_map : GatePair(k, cite_map[k])

\* a pair with the same title failed the gate and is not in the finished
\* output, which holds another pair
C2_Witness ==
  /\ m_pc = "done"
  /\ cite_map # <<>>
  /\ \E k \in Compared, n \in NewIDs :
       /\ ~check_uids(bib_1[k], NewEntry(n))
       /\ bib_1[k]["title"] = NewEntry(n)["title"]
       /\ <<k, n>> \notin scored
       /\ k \in DOMAIN cite_map

RECURSIVE DistOver(_, _, _)
\* the sum of the edit distances of old and new over the fields fields
DistOver(old, new, fields) ==
  IF fields = {} THEN 0
  ELSE LET f == CHOOSE x \in fields : TRUE
       IN  editdistance(old[f], new[f]) + DistOver(old, new, fields \ {f})

Common(old, new) == DOMAIN old \cap DOMAIN new

\* the average distance of (k, n) is at most that of (k, n2)
AvgLeq(k, n, n2) ==
  LET o == bib_1[k]
      e == NewEntry(n)
      e2 == NewEntry(n2)
  IN  DistOver(o, e, Common(o, e)) * Cardinality(Common(o, e2))
        <= DistOver(o, e2, Common(o, e2)) * Cardinality(Common(o, e))

\* C3: every old record with a surviving candidate has exactly one entry, and
\* it is a survivor whose average distance is at most that of every other
\* survivor.
C3_MinimumSelected ==
  m_pc = "done" =>
    \A k \in Compared :
      LET sv == Survivors(k)
      IN  sv # {} =>
            /\ k \in DOMAIN cite_map
            /\ Cardinality({g \in DOMAIN min_idx : min_idx[g][1] = k}) = 1
            /\ cite_map[k] \in sv
            /\ \A n2 \in sv \ {cite_map[k]} : AvgLeq(k, cite_map[k], n2)

\* both old records have survivors, each its own strictly best one, and the
\* two best ones differ
C3_Witness ==
  /\ m_pc = "done"
  /\ Cardinality(Compared) = 2
  /\ \A k \in Compared :
       /\ Cardinality(Survivors(k)) >= 2
       /\ \A n2 \in Survivors(k) \ {cite_map[k]} : ~AvgLeq(k, n2, cite_map[k])
  /\ cite_map[OldKeys[1]] # cite_map[OldKeys[2]]

\* C4: an old key without a surviving candidate, or not in the old
\* bibliography, has no entry in the output; every entry is a new key.
C4_NoCandidateNoEntry ==
  m_pc = "done" =>
    /\ \A i \in 1..Len(cite_list) :
         (cite_list[i] \notin DOMAIN bib_1 \/ Survivors(cite_list[i]) = {})
           => cite_list[i] \notin DOMAIN cite_map
    /\ \A k \in DOMAIN cite_map : cite_map[k] \in NewIDs

\* one old record is matched, the other is in the old bibliography and has
\* no survivor among the new records
C4_Witness ==
  /\ m_pc = "done"
  /\ bib_2 # <<>>
  /\ OldKeys[1] \in DOMAIN cite_map
  /\ OldKeys[2] \in DOMAIN bib_1 /\ Survivors(OldKeys[2]) = {}
  /\ OldKeys[2] \notin DOMAIN cite_map

TitleDist(k, j) == editdistance(bib_1[k]["title"], bib_2[j]["title"])

\* one old record, with a doi, and two new records
OneOldTwoNew(k) ==
  /\ m_pc = "done"
  /\ Compared = {k} /\ Has(bib_1[k], "doi")
  /\ Len(bib_2) = 2

\* C5 as claimed: the new record with the old record's doi is selected
\* although the other one, which has another doi or none, has the more
\* similar title.
C5_DoiMatchSelected ==
  \A k \in Compared, a, b \in 1..Len(bib_2) :
    ( /\ OneOldTwoNew(k) /\ a # b
      /\ Same(bib_1[k], bib_2[a], "doi")
      /\ ~Same(bib_1[k], bib_2[b], "doi")
      /\ TitleDist(k, b) < TitleDist(k, a) )
    => (k \in DOMAIN cite_map /\ cite_map[k] = bib_2[a]["ID"])

\* C5 as amended: the new record with the old record's doi is selected
\* whenever the other one, with the more similar title, fails the gate (it
\* has another doi, or it has no doi and no later rule lets it pass).
C5_DoiMatchSelectedWhenOtherFails ==
  \A k \in Compared, a, b \in 1..Len(bib_2) :
    ( /\ OneOldTwoNew(k) /\ a # b
      /\ Same(bib_1[k], bib_2[a], "doi")
      /\ ~GateVerdict(bib_1[k], bib_2[b])
      /\ TitleDist(k, b) < TitleDist(k, a) )
    => (k \in DOMAIN cite_map /\ cite_map[k] = bib_2[a]["ID"])

\* the doi match with the other title is selected over a record of another
\* doi with the very title of the old record
C5_Witness ==
  \E k \in Compared, a, b \in 1..Len(bib_2) :
    /\ OneOldTwoNew(k) /\ a # b
    /\ Same(bib_1[k], bib_2[a], "doi")
    /\ Has(bib_2[b], "doi") /\ bib_2[b]["doi"] # bib_1[k]["doi"]
    /\ TitleDist(k, b) = 0 /\ TitleDist(k, a) > 0
    /\ cite_map[k] = bib_2[a]["ID"]

\* the position in bib_2.entries of the entry with ID n
PosOf(n) == CHOOSE j \in 1..Len(bib_2) : bib_2[j]["ID"] = n

\* C10: on a tie on the minimum the tied candidate that comes first in the
\* new bibliography is selected: no surviving candidate before the selected
\* one is as close as it.
C10_FirstOfTiedSelected ==
  m_pc = "done" =>
    \A k \in DOMAIN cite_map :
      LET chosen == PosOf(cite_map[k])
      IN  \A j \in 1..(chosen - 1) :
            check_uids(bib_1[k], bib_2[j]) => ~AvgLeq(k, bib_2[j]["ID"], cite_map[k])

\* two survivors tie on the minimum and the first of them is selected
C10_Witness ==
  /\ m_pc = "done"
  /\ \E k \in DOMAIN cite_map :
       \E n2 \in Survivors(k) :
         /\ n2 # cite_map[k]
         /\ AvgLeq(k, n2, cite_map[k]) /\ AvgLeq(k, cite_map[k], n2)
         /\ PosOf(cite_map[k]) < PosOf(n2)

----------------------------------------------------------------------------
\* The vault scan.

\* line has the form "word: rest-of-line"
WordLine(line) ==
  \E n \in 1..Len(line) :
    /\ \A i \in 1..n : line[i] \in WordChars
    /\ Len(line) >= n + 2 /\ line[n + 1] = ":" /\ line[n + 2] = " "

\* the file does not open with "---", or a line before its closing "---" is
\* no "word: rest-of-line", or it ends before any closing "---"
Malformed(body) ==
  \/ body = <<>>
  \/ body[1] # Delim
  \/ ~\E c \in 2..Len(body) :
        /\ body[c] = Delim
        /\ \A i \in 2..(c - 1) : WordLine(body[i])

SameKeyTwice ==
  \E i, j \in 1..Len(lit_files) : i # j /\ lit_files[i].key = lit_files[j].key

\* C8: a scan that meets two note files of the same citation key aborts and
\* returns no record map, in whatever order and with whatever content.
C8_DuplicateKeyAborts == SameKeyTwice => s_pc # "done"

\* the file gen_old_entries is about to read with read_file
Reading ==
  /\ s_pc = "scan" /\ lit_pos <= Len(lit_files)
  /\ lit_files[lit_pos].key \notin DOMAIN header_data

\* C9: a malformed file makes read_file raise; gen_old_entries then leaves it
\* out of the result, keeps the records read so far and goes on with the
\* next file.
C9_MalformedFileSkipped ==
  [][ (Reading /\ Malformed(lit_files[lit_pos].body))
        => /\ ~read_file(lit_files[lit_pos].body).ok
           /\ header_data' = header_data
           /\ lit_files[lit_pos].key \notin DOMAIN header_data'
           /\ skipped' = skipped \cup {lit_pos}
           /\ lit_pos' = lit_pos + 1 /\ s_pc' = "scan" ]_vars

\* a file that ends before its closing delimiter was skipped after a record
\* was read from another file, which is kept, and the scan has returned
C9_Witness ==
  /\ s_pc = "done"
  /\ Len(lit_files) = 2
  /\ skipped = {2}
  /\ lit_files[2].body = <<Delim, <<"a", ":", " ", "b">>>>
  /\ DOMAIN header_data = {lit_files[1].key}
  /\ header_data[lit_files[1].key] = [k \in {<<"a">>} |-> <<"b">>]

----------------------------------------------------------------------------
\* The vault rewrite.

Link(key) == <<"[", "[">> \o key \o <<"]", "]">>

RECURSIVE Rewritten(_, _, _)
\* s from position i on, every link whose inner text is a key of map replaced
\* by the link to the new key, everything else as it is
Rewritten(s, i, map) ==
  IF i >= Len(s) THEN <<>>
  ELSE LET m == match_at(s, i)
       IN  IF m = <<>> THEN <<At(s, i)>> \o Rewritten(s, i + 1, map)
           ELSE (IF m[3] \in DOMAIN map THEN Link(map[m[3]]) ELSE Slice(s, m[1], m[2]))
                  \o Rewritten(s, m[2], map)

\* C6: the content handle_note writes is the content it read with every link
\* to a key of the map replaced by the link to its new key, shorter or longer,
\* and every other character unchanged and in place.
C6_LinksRewrittenInPlace ==
  (last_note # <<>> /\ ~dry_run) =>
     /\ last_note[1].new_file \in DOMAIN fs
     /\ fs[last_note[1].new_file] = Rewritten(last_note[1].contents, 0, citekey_map)

\* a note with a link that grows, text and a link that shrinks was rewritten
C6_Witness ==
  /\ last_note # <<>> /\ ~dry_run
  /\ last_note[1].contents = Link(<<"@", "a">>) \o <<"x">> \o Link(<<"@", "b", "b">>)
  /\ fs[last_note[1].new_file] =
       Link(<<"@", "c", "c", "c">>) \o <<"x">> \o Link(<<"@", "c">>)

\* C7: a dry run leaves every file as it was and prints the link rewrites and
\* the renames that the run without dry_run makes on the same vault.
C7_DryRunReportsTheRealRun == dry_run => (fs = fs0 /\ out = out_ref)

====
